---- MODULE Spec2Model ----
(***************************************************************************)
(* Model of sourmash_plugin_containment_search: the two sweeps `mgsearch`  *)
(* (one query against many metagenomes) and `mg_many_search` (many queries *)
(* against many metagenomes) and the pairwise calculator `_search_metag`.  *)
(*                                                                         *)
(* Python values that end up in a result row are modelled as records       *)
(* [t, v]: t is the Python type, v the value.  Floats are fixed-point      *)
(* thousandths.  A sketch (MinHash) is [scaled, track_abundance, abunds]   *)
(* where abunds maps each retained hash to its abundance (1 for every hash *)
(* of a flat sketch, as MinHash.hashes reports it).  Scale factors are in  *)
(* model units: a sketch at scaled s keeps the hashes h <= HashSpace \div s.*)
(* The jaccard, ANI, md5, ksize and moltype columns of a row are copied     *)
(* from the external estimator and from the signature; they enter no       *)
(* branch of the code and are left out of the row.                         *)
(***************************************************************************)
EXTENDS Integers, Sequences, FiniteSets, TLC

\* ---------------------------------------------------------------- bounds
\* Longest list of metagenome files on the command line.
MaxSubjects == 2
\* Longest list of query files given to mgmanysearch.
MaxQueryFiles == 2
\* Size of the hash space, in model units.
HashSpace == 4

\* ---------------------------------------------------------- Python values
PyInt(n) == [t |-> "int", v |-> n]
PyFloat(m) == [t |-> "float", v |-> m]
\* the empty string ''
PyEmptyStr == [t |-> "str", v |-> 0]
PyNone == [t |-> "NoneType", v |-> 0]
\* the display marker "N/A"
NA == [t |-> "N/A", v |-> 0]

IsNumber(x) == x.t \in {"int", "float"}

\* scaled=None on the command line
NoScaled == 0

\* ------------------------------------------------------- sketch library
Hashes(mh) == DOMAIN mh.abunds

MaxHashForScaled(s) == HashSpace \div s

MinHash(s, track, ab) == [scaled |-> s, track_abundance |-> track, abunds |-> ab]

\* MinHash.downsample(scaled=s): keeps the hashes below the new maximum.
\* It raises ValueError when s is lower than the sketch's own scaled.
DownsampleRaises(mh, s) == s < mh.scaled

Downsample(mh, s) ==
    IF s = mh.scaled THEN mh
    ELSE MinHash(s, mh.track_abundance,
                 [h \in {x \in Hashes(mh) : x <= MaxHashForScaled(s)} |-> mh.abunds[h]])

\* MinHash.flatten(): same hashes, no abundances.
Flatten(mh) == MinHash(mh.scaled, FALSE, [h \in Hashes(mh) |-> 1])

\* MinHash.intersection(other) refuses sketches of different scaled.
IntersectionRaises(a, b) == a.scaled # b.scaled

Intersection(a, b) ==
    MinHash(a.scaled, FALSE, [h \in Hashes(a) \cap Hashes(b) |-> 1])

\* MinHash.inflate(from_mh): the abundances of from_mh on the hashes of mh.
Inflate(mh, from_mh) ==
    MinHash(mh.scaled, TRUE, [h \in Hashes(mh) |-> from_mh.abunds[h]])

RECURSIVE SumOver(_, _)
SumOver(f, S) ==
    IF S = {} THEN 0
    ELSE LET h == CHOOSE x \in S : TRUE IN f[h] + SumOver(f, S \ {h})

\* MinHash.sum_abundances: None for a sketch without abundances.
SumAbundances(mh) ==
    IF mh.track_abundance THEN PyInt(SumOver(mh.abunds, Hashes(mh))) ELSE PyNone

\* ------------------------------------------------------------- numpy
RECURSIVE SortedValues(_, _)
SortedValues(f, S) ==
    IF S = {} THEN << >>
    ELSE LET h == CHOOSE x \in S : \A y \in S : f[x] <= f[y]
         IN <<f[h]>> \o SortedValues(f, S \ {h})

RECURSIVE SumSeq(_)
SumSeq(s) == IF s = << >> THEN 0 ELSE Head(s) + SumSeq(Tail(s))

RECURSIVE ISqrtIn(_, _, _)
ISqrtIn(lo, hi, n) ==
    IF lo >= hi THEN lo
    ELSE LET mid == (lo + hi + 1) \div 2
         IN IF mid * mid <= n THEN ISqrtIn(mid, hi, n) ELSE ISqrtIn(lo, mid - 1, n)

\* the integer square root of n, known to be at most hi
ISqrt(n, hi) == ISqrtIn(0, hi, n)

\* np.mean(abunds)
NpMean(abunds) == PyFloat((SumSeq(abunds) * 1000) \div Len(abunds))

\* np.median(abunds): the mean of the two central values for an even length
NpMedian(abunds) ==
    LET n == Len(abunds) IN
    IF n % 2 = 1 THEN PyFloat(abunds[(n + 1) \div 2] * 1000)
    ELSE PyFloat(((abunds[n \div 2] + abunds[n \div 2 + 1]) * 1000) \div 2)

\* np.std(abunds): population standard deviation (at most the largest
\* value; abunds is in ascending order here)
NpStd(abunds) ==
    LET n == Len(abunds)
        sq == [k \in 1..n |-> abunds[k] * abunds[k]]
        num == n * SumSeq(sq) - SumSeq(abunds) * SumSeq(abunds)
    IN PyFloat(ISqrt((num * 1000000) \div (n * n), 1000 * abunds[n]))

\* a / b as a float
Div(a, b) == PyFloat((a * 1000) \div b)

\* ------------------------------------------------------------ the files
Sig(file, nm, mh) == [filename |-> file, name |-> nm, minhash |-> mh]

Flat(s, S) == MinHash(s, FALSE, [h \in S |-> 1])

\* Query files, as sourmash.load_file_as_index(f).select(ksize, moltype)
\* resolves them: one sketch, one coarser sketch, none, two.
QueryFiles == {"gA.sig", "gB.sig", "gNone.sig", "gTwo.sig"}

\* Metagenome files, as sourmash.load_file_as_signatures(f, ksize) resolves
\* them: with abundances, flat, coarser with abundances, none, two.
MetagFiles == {"mgA.sig", "mgB.sig", "mgC.sig", "mgNone.sig", "mgTwo.sig"}

LoadFile(f) ==
    CASE f = "gA.sig" -> <<Sig(f, "gA", Flat(1, {1, 3, 4}))>>
      [] f = "gB.sig" -> <<Sig(f, "gB", Flat(2, {2}))>>
      [] f = "gNone.sig" -> << >>
      [] f = "gTwo.sig" -> <<Sig(f, "gTwo.1", Flat(1, {2, 4})),
                             Sig(f, "gTwo.2", Flat(1, {1, 2}))>>
      [] f = "mgA.sig" -> <<Sig(f, "mgA", MinHash(1, TRUE, (1 :> 2) @@ (3 :> 4)))>>
      [] f = "mgB.sig" -> <<Sig(f, "mgB", Flat(1, {1, 2}))>>
      [] f = "mgC.sig" -> <<Sig(f, "mgC", MinHash(2, TRUE, (2 :> 3)))>>
      [] f = "mgNone.sig" -> << >>
      [] f = "mgTwo.sig" -> <<Sig(f, "mgTwo.1", MinHash(1, TRUE, (1 :> 1))),
                              Sig(f, "mgTwo.2", Flat(1, {3}))>>

\* ------------------------------------------------------- PrefetchResult
\* sourmash.search.PrefetchResult(query, match, threshold_bp=0): both
\* sketches are brought to the coarser of the two scaled values, and the
\* shared hashes are counted at that scaled.
Containment(n, d) == IF d = 0 THEN PyFloat(0) ELSE Div(n, d)

PrefetchResult(query_ss, metag) ==
    LET cmp_scaled == IF query_ss.minhash.scaled >= metag.minhash.scaled
                      THEN query_ss.minhash.scaled ELSE metag.minhash.scaled
        mh1_cmp == Downsample(query_ss.minhash, cmp_scaled)
        mh2_cmp == Downsample(metag.minhash, cmp_scaled)
        n == Cardinality(Hashes(mh1_cmp) \cap Hashes(mh2_cmp))
    IN [intersect_bp |-> PyInt(n * cmp_scaled),
        f_match_query |-> Containment(n, Cardinality(Hashes(mh1_cmp))),
        f_query_match |-> Containment(n, Cardinality(Hashes(mh2_cmp)))]

\* ---------------------------------------------------------- exceptions
NoExc == [type |-> "", msg |-> "", file |-> "", count |-> 0]
ValueError(m, f, c) == [type |-> "ValueError", msg |-> m, file |-> f, count |-> c]

NoRow ==
    [intersect_bp |-> PyNone, match_filename |-> "", match_name |-> "",
     query_filename |-> "", query_name |-> "", scaled |-> PyNone,
     f_query |-> PyNone, f_match |-> PyNone, f_match_weighted |-> PyNone,
     sum_weighted_found |-> PyNone, average_abund |-> PyNone,
     median_abund |-> PyNone, std_abund |-> PyNone, query_n_hashes |-> PyNone,
     match_n_hashes |-> PyNone, match_n_weighted_hashes |-> PyNone,
     display_name |-> ""]

\* What one call of _search_metag hands back: an exception or a row; and,
\* for the record, whether it divided by the metagenome's total abundance.
Raise(e) == [raised |-> TRUE, exc |-> e, results_d |-> NoRow, divided |-> FALSE]
Return(r, d) == [raised |-> FALSE, exc |-> NoExc, results_d |-> r, divided |-> d]

\* -------------------------------------------------------- _search_metag
\* Mutant of AbsentStats: zeros in place of the absent marker.
AbsentStatsAsZero ==
    [mean |-> PyInt(0), median |-> PyInt(0), std |-> PyInt(0),
     overlap_sum_abunds |-> PyInt(0), f_sum_abunds |-> PyFloat(0),
     divided |-> FALSE]

\* The weighted statistics of a metagenome without abundances (lines 407-410).
AbsentStats ==
    [mean |-> PyEmptyStr, median |-> PyEmptyStr, std |-> PyEmptyStr,
     overlap_sum_abunds |-> PyEmptyStr, f_sum_abunds |-> PyEmptyStr,
     divided |-> FALSE]

\* Mutant of EmptyIntersectionStats: the absent marker in place of zeros.
EmptyIntersectionAsAbsent ==
    [mean |-> PyEmptyStr, median |-> PyEmptyStr, std |-> PyEmptyStr,
     overlap_sum_abunds |-> PyEmptyStr, f_sum_abunds |-> PyEmptyStr,
     divided |-> FALSE]

\* The weighted statistics of an empty intersection (lines 401-406).
EmptyIntersectionStats ==
    [mean |-> PyInt(0), median |-> PyInt(0), std |-> PyInt(0),
     overlap_sum_abunds |-> PyInt(0), f_sum_abunds |-> PyFloat(0),
     divided |-> FALSE]

\* The weighted part of a row (lines 388-410).  query_mh and metag have the
\* same scaled here.
WeightedStats(query_mh, metag, has_abundance, total_sum_abunds) ==
    IF has_abundance
    THEN LET intersect_mh == Intersection(query_mh, Flatten(metag.minhash)) IN
         IF Cardinality(Hashes(intersect_mh)) # 0
         THEN LET w_intersect_mh == Inflate(intersect_mh, metag.minhash)
                  abunds == SortedValues(w_intersect_mh.abunds, Hashes(w_intersect_mh))
                  overlap_sum_abunds == SumAbundances(w_intersect_mh)
              IN [mean |-> NpMean(abunds), median |-> NpMedian(abunds),
                  std |-> NpStd(abunds),
                  overlap_sum_abunds |-> overlap_sum_abunds,
                  f_sum_abunds |-> Div(overlap_sum_abunds.v, total_sum_abunds.v),
                  divided |-> TRUE]
         ELSE EmptyIntersectionStats
    ELSE AbsentStats

\* has_abundance as _search_metag sets it (lines 363-367).  The assignment
\* missed_abundance = True of line 367 binds a local of _search_metag, which
\* is dropped on return: no caller sees it.
HasAbundance(metag) == metag.minhash.track_abundance

\* Mutant of AbundanceRequired: the check is never made.
AbundanceNeverRequired(require_abundance_, metag) == FALSE

\* The check of lines 359-361.
AbundanceRequired(require_abundance_, metag) ==
    require_abundance_ /\ ~metag.minhash.track_abundance

\* The scale factor a row reports (line 385).
RowScaled(query_ss, metag) == metag.minhash.scaled

\* The query size a row reports (line 421).
QueryNHashes(query_mh) == Cardinality(Hashes(query_mh))

\* Mutant of NotOneMetagenome: only an empty file is refused, the first of
\* several sketches is used.
NotOneMetagenomeEmptyOnly(metag) == Len(metag) = 0

\* `if len(metag) != 1` (line 353)
NotOneMetagenome(metag) == Len(metag) # 1

SearchMetag(query_ss, metag_filename, require_abundance_) ==
    LET query_mh == query_ss.minhash
        loaded == LoadFile(metag_filename)
    IN
    IF NotOneMetagenome(loaded)
    THEN Raise(ValueError("need one metagenome per file for now", metag_filename,
                          Len(loaded)))
    ELSE
    LET metag == loaded[1] IN
    IF AbundanceRequired(require_abundance_, metag)
    THEN Raise(ValueError("must have abundance information", metag_filename, 1))
    ELSE
    LET has_abundance == HasAbundance(metag)
        result == PrefetchResult(query_ss, metag)
        total_sum_abunds == SumAbundances(metag.minhash)
        flat_metag == Flatten(metag.minhash)
    IN
    IF has_abundance /\ IntersectionRaises(query_mh, flat_metag)
    THEN Raise(ValueError("mismatch in scaled; comparison fail", "", 0))
    ELSE
    LET w == WeightedStats(query_mh, metag, has_abundance, total_sum_abunds) IN
    Return([intersect_bp |-> result.intersect_bp,
            match_filename |-> metag_filename,
            match_name |-> metag.name,
            query_filename |-> query_ss.filename,
            query_name |-> query_ss.name,
            scaled |-> PyInt(RowScaled(query_ss, metag)),
            f_query |-> result.f_match_query,
            f_match |-> result.f_query_match,
            f_match_weighted |-> w.f_sum_abunds,
            sum_weighted_found |-> w.overlap_sum_abunds,
            average_abund |-> w.mean,
            median_abund |-> w.median,
            std_abund |-> w.std,
            query_n_hashes |-> PyInt(QueryNHashes(query_mh)),
            match_n_hashes |-> PyInt(Cardinality(Hashes(flat_metag))),
            match_n_weighted_hashes |-> total_sum_abunds,
            display_name |-> metag.name],
           w.divided)

\* ------------------------------------------------------------ the sinks
\* csv.DictWriter renders None and '' as an empty field, numbers by str().
Pad3(n) == IF n < 10 THEN "00" \o ToString(n)
           ELSE IF n < 100 THEN "0" \o ToString(n) ELSE ToString(n)

CsvField(x) ==
    IF x.t \in {"str", "NoneType"} THEN ""
    ELSE IF x.t = "int" THEN ToString(x.v)
    ELSE ToString(x.v \div 1000) \o "." \o Pad3(x.v % 1000)

\* out_w.writerow(results_d), after `del results_d['display_name']`.
CsvRow(r) ==
    [intersect_bp |-> CsvField(r.intersect_bp),
     match_filename |-> r.match_filename,
     match_name |-> r.match_name,
     query_filename |-> r.query_filename,
     query_name |-> r.query_name,
     scaled |-> CsvField(r.scaled),
     f_query |-> CsvField(r.f_query),
     f_match |-> CsvField(r.f_match),
     f_match_weighted |-> CsvField(r.f_match_weighted),
     sum_weighted_found |-> CsvField(r.sum_weighted_found),
     average_abund |-> CsvField(r.average_abund),
     median_abund |-> CsvField(r.median_abund),
     std_abund |-> CsvField(r.std_abund),
     query_n_hashes |-> CsvField(r.query_n_hashes),
     match_n_hashes |-> CsvField(r.match_n_hashes),
     match_n_weighted_hashes |-> CsvField(r.match_n_weighted_hashes)]

\* A line of standard output.  Percentages and abundances are kept in tenths,
\* as the .1f formats print them.
Line(k, q, m, pg, aa, pm) ==
    [kind |-> k, query |-> q, name |-> m, pct_genome |-> pg, avg_abund |-> aa,
     pct_metag |-> pm]

Plain(k) == Line(k, "", "", NA, NA, NA)

\* Mutant of HeaderLines: the header is printed with every result.
HeaderLinesEveryRow(first_) == <<Plain("blank"), Plain("header"), Plain("rule")>>

\* The column header, printed with the first result only (lines 211-215 and
\* 309-313).
HeaderLines(first_) ==
    IF first_ THEN <<Plain("blank"), Plain("header"), Plain("rule")>> ELSE << >>

\* The result line of lines 217-230 (query_name "") and 315-329.
ResultLine(r, query_name) ==
    LET has_abundance == r.average_abund # PyEmptyStr
        pct_genome == PyFloat(r.f_query.v)
    IN IF has_abundance
       THEN Line("result", query_name, r.display_name, pct_genome,
                 PyFloat((r.average_abund.v + 50) \div 100),
                 PyFloat(r.f_match_weighted.v))
       ELSE Line("result", query_name, r.display_name, pct_genome, NA, NA)

\* notify() of lines 237-239 and 339-341.
ErrLine(k, e) == [kind |-> k, exc |-> e]

NoteLines(missed_abundance_) ==
    IF missed_abundance_
    THEN <<ErrLine("blank", NoExc), ErrLine("note", NoExc)>> ELSE << >>

\* ---------------------------------------------------------------- state
VARIABLES
    mode,               \* which sweep runs: "mgsearch" or "mg_many_search"
    query_filenames,    \* the query file(s); mgsearch has exactly one
    against_list,       \* the metagenome files
    scaled,             \* the requested scaled, NoScaled for None
    output,             \* whether -o names a CSV file
    require_abundance,
    pc,                 \* "start", "sweep", "done"
    query_sigs,         \* the resolved queries (mgsearch: its one query_ss)
    i,                  \* position in against_list
    j,                  \* position in query_sigs
    first,
    missed_abundance,
    out_fp,             \* "None", "open", "closed"
    csv_header,         \* header rows written to the CSV file
    csv_rows,           \* rows written to the CSV file
    stdout,
    stderr,
    retval,             \* what the sweep returned
    exc,                \* the exception that left the sweep, NoExc if none
    loads,              \* metagenome files loaded, one entry per load
    results,            \* the rows _search_metag returned, in order
    divided             \* per row: was the total abundance divided by

inputs == <<mode, query_filenames, against_list, scaled, output, require_abundance>>
locals == <<query_sigs, i, j, first, missed_abundance>>
sinks == <<out_fp, csv_header, csv_rows, stdout, stderr>>
history == <<loads, results, divided>>
vars == <<inputs, locals, sinks, history, pc, retval, exc>>

SeqsUpTo(S, n) == UNION {[1..k -> S] : k \in 0..n}

Scales == {NoScaled, 1, 2}

Init ==
    /\ mode \in {"mgsearch", "mg_many_search"}
    /\ query_filenames \in SeqsUpTo(QueryFiles, MaxQueryFiles)
    /\ Len(query_filenames) >= 1
    /\ mode = "mgsearch" => Len(query_filenames) = 1
    /\ against_list \in SeqsUpTo(MetagFiles, MaxSubjects)
    /\ scaled \in Scales
    /\ output \in BOOLEAN
    /\ require_abundance \in BOOLEAN
    /\ pc = "start"
    /\ query_sigs = << >>
    /\ i = 1
    /\ j = 1
    /\ first = TRUE
    /\ missed_abundance = FALSE
    /\ out_fp = "None"
    /\ csv_header = 0
    /\ csv_rows = << >>
    /\ stdout = << >>
    /\ stderr = << >>
    /\ retval = PyNone
    /\ exc = NoExc
    /\ loads = << >>
    /\ results = << >>
    /\ divided = << >>

\* error(...); return -1
ErrorMsg(m, c) == [type |-> "error", msg |-> m, file |-> "", count |-> c]

ReturnError(e) ==
    /\ pc' = "done"
    /\ retval' = PyInt(-1)
    /\ stderr' = Append(stderr, ErrLine("error", e))
    /\ UNCHANGED <<exc, out_fp, csv_header, csv_rows>>

\* an exception leaves the sweep: nothing after the raise runs
Raised(e) ==
    /\ pc' = "done"
    /\ exc' = e
    /\ stderr' = Append(stderr, ErrLine("traceback", e))
    /\ UNCHANGED <<retval, out_fp, csv_header, csv_rows>>

\* lines 179-193 and 272-284: open the CSV file, write its header, and
\* set the loop's flags
OpenOutput ==
    /\ out_fp' = IF output THEN "open" ELSE "None"
    /\ csv_header' = IF output THEN csv_header + 1 ELSE csv_header
    /\ pc' = "sweep"
    /\ UNCHANGED <<csv_rows, stderr, retval, exc>>

\* ---------------------------------------------------------------- mgsearch
\* `if not query_ss` (line 161)
NoQuery(sigs) == Len(sigs) = 0

\* Mutant of TooManyQueries: several sketches pass, the first is used.
TooManyQueriesUnchecked(sigs) == FALSE

\* `if len(query_ss) > 1` (line 166)
TooManyQueries(sigs) == Len(sigs) > 1

\* lines 173-177: the query at the requested scaled
DownsampledQuery(query_ss, scaled_) ==
    IF scaled_ # NoScaled
    THEN [query_ss EXCEPT !.minhash = Downsample(query_ss.minhash, scaled_)]
    ELSE query_ss

\* lines 157-193
MgsearchSetup ==
    /\ mode = "mgsearch"
    /\ pc = "start"
    /\ LET sigs == LoadFile(query_filenames[1]) IN
       IF NoQuery(sigs)
       THEN /\ ReturnError(ErrorMsg("cannot find query sketch", 0))
            /\ UNCHANGED <<query_sigs, stdout>>
       ELSE IF TooManyQueries(sigs)
       THEN /\ ReturnError(ErrorMsg("can only have one query", Len(sigs)))
            /\ UNCHANGED <<query_sigs, stdout>>
       ELSE /\ stdout' = Append(stdout, Line("loaded", sigs[1].name, "", NA, NA, NA))
            /\ IF scaled # NoScaled /\ DownsampleRaises(sigs[1].minhash, scaled)
               THEN /\ Raised(ValueError("new scaled is lower than current sample scaled",
                                         "", scaled))
                    /\ UNCHANGED query_sigs
               ELSE /\ query_sigs' = <<DownsampledQuery(sigs[1], scaled)>>
                    /\ OpenOutput
    /\ UNCHANGED <<inputs, i, j, first, missed_abundance, history>>

\* one pass of the loop body of either sweep, from the call of _search_metag
\* to the print of the result line (lines 196-230 and 290-329); `next` is
\* where the loops stand after it
LoopBody(query_ss, query_name, next) ==
    LET r == SearchMetag(query_ss, against_list[i], require_abundance) IN
    /\ loads' = Append(loads, against_list[i])
    /\ IF r.raised
       THEN /\ Raised(r.exc)
            /\ UNCHANGED <<results, divided, stdout, first, i, j>>
       ELSE /\ results' = Append(results, r.results_d)
            /\ divided' = Append(divided, r.divided)
            /\ csv_rows' = IF out_fp = "open"
                           THEN Append(csv_rows, CsvRow(r.results_d)) ELSE csv_rows
            /\ stdout' = stdout \o HeaderLines(first)
                                \o <<ResultLine(r.results_d, query_name)>>
            /\ first' = FALSE
            /\ i' = next[1]
            /\ j' = next[2]
            /\ UNCHANGED <<pc, retval, exc, stderr, out_fp, csv_header>>

\* lines 195-230: one metagenome
MgsearchIter ==
    /\ mode = "mgsearch"
    /\ pc = "sweep"
    /\ i <= Len(against_list)
    /\ LoopBody(query_sigs[1], "", <<i + 1, j>>)
    /\ UNCHANGED <<inputs, query_sigs, missed_abundance>>

\* lines 232-239 and 334-341: close the CSV file, print the note
Finish ==
    /\ pc' = "done"
    /\ out_fp' = IF out_fp = "open" THEN "closed" ELSE out_fp
    /\ stderr' = stderr \o NoteLines(missed_abundance)
    /\ UNCHANGED <<inputs, locals, history, csv_header, csv_rows, stdout, retval, exc>>

MgsearchFinish ==
    /\ mode = "mgsearch"
    /\ pc = "sweep"
    /\ i > Len(against_list)
    /\ Finish

\* ---------------------------------------------------------- mg_many_search
RECURSIVE LoadAll(_)
\* lines 251-255: every sketch of every query file, in order
LoadAll(files) ==
    IF files = << >> THEN << >> ELSE LoadFile(Head(files)) \o LoadAll(Tail(files))

\* line 266
NeedsDownsample(query_ss, scaled_) ==
    scaled_ # NoScaled /\ scaled_ # query_ss.minhash.scaled

\* lines 264-269: the loop rebinds its own variable query_ss to the
\* downsampled copy; the list query_sigs keeps the sketches as loaded.
DownsampledQueries(sigs, scaled_) == sigs

\* lines 249-284
MgManySetup ==
    /\ mode = "mg_many_search"
    /\ pc = "start"
    /\ LET sigs == LoadAll(query_filenames) IN
       IF Len(sigs) = 0
       THEN /\ ReturnError(ErrorMsg("cannot find any query sketches", 0))
            /\ UNCHANGED <<query_sigs, stdout>>
       ELSE /\ stdout' = Append(stdout, Line("loaded", "", "", PyInt(Len(sigs)), NA, NA))
            /\ IF \E k \in 1..Len(sigs) :
                     /\ NeedsDownsample(sigs[k], scaled)
                     /\ DownsampleRaises(sigs[k].minhash, scaled)
               THEN /\ Raised(ValueError("new scaled is lower than current sample scaled",
                                         "", scaled))
                    /\ UNCHANGED query_sigs
               ELSE /\ query_sigs' = DownsampledQueries(sigs, scaled)
                    /\ OpenOutput
    /\ UNCHANGED <<inputs, i, j, first, missed_abundance, history>>

\* Mutant of NextPair: the queries in the outer loop, the metagenomes in the
\* inner one (i_ and j_ advance the other way round).
NextPairQueryMajor(i_, j_, n_queries) ==
    IF i_ < Len(against_list) /\ j_ < n_queries THEN <<i_ + 1, j_>>
    ELSE IF j_ < n_queries THEN <<1, j_ + 1>>
    ELSE <<Len(against_list) + 1, 1>>

\* lines 287-289: the metagenomes in the outer loop, the queries in the inner
NextPair(i_, j_, n_queries) ==
    IF j_ < n_queries THEN <<i_, j_ + 1>> ELSE <<i_ + 1, 1>>

\* lines 287-329: one query against one metagenome
MgManyIter ==
    /\ mode = "mg_many_search"
    /\ pc = "sweep"
    /\ i <= Len(against_list)
    /\ LoopBody(query_sigs[j], query_sigs[j].name, NextPair(i, j, Len(query_sigs)))
    /\ UNCHANGED <<inputs, query_sigs, missed_abundance>>

MgManyFinish ==
    /\ mode = "mg_many_search"
    /\ pc = "sweep"
    /\ i > Len(against_list)
    /\ Finish

Next ==
    \/ MgsearchSetup
    \/ MgsearchIter
    \/ MgsearchFinish
    \/ MgManySetup
    \/ MgManyIter
    \/ MgManyFinish

Spec == Init /\ [][Next]_vars

\* ------------------------------------------------------ reading a run
Done == pc = "done"

\* the sweep ran to its end: no error return, no exception
Completed == Done /\ exc = NoExc /\ retval = PyNone

Failed == Done /\ ~Completed

NQueries == Len(query_sigs)

\* the metagenome and the query of the k-th call of _search_metag that
\* returned a row
SubjectIndex(k) == ((k - 1) \div NQueries) + 1
QueryIndex(k) == ((k - 1) % NQueries) + 1
SubjectOf(k) == LoadFile(results[k].match_filename)[1]
QueryPassed(k) == query_sigs[QueryIndex(k)]

IsResult(l) == l.kind = "result"
ResultLines == SelectSeq(stdout, IsResult)

Count(seq, k) == Cardinality({n \in 1..Len(seq) : seq[n].kind = k})

\* the name the display prints for a query: mgsearch prints none
ShownQuery(q) == IF mode = "mgsearch" THEN "" ELSE query_sigs[q].name

\* ------------------------------------------------------------------ C1
\* C1: at the end of a completed many-query sweep the number of metagenome
\* loads equals the number of metagenome files, whatever the number of
\* queries.
C1_EachSubjectLoadedOnce ==
    (mode = "mg_many_search" /\ Completed) => Len(loads) = Len(against_list)

\* ------------------------------------------------------------------ C2
\* C2: the results come in subject-major order, one per (subject, query)
\* pair: the k-th result, CSV row and display line are those of metagenome
\* SubjectIndex(k) and query QueryIndex(k); a completed sweep has emitted
\* exactly Len(against_list) * NQueries of them.
C2_SubjectMajorOrder ==
    /\ \A k \in 1..Len(results) :
          /\ SubjectIndex(k) <= Len(against_list)
          /\ results[k].match_filename = against_list[SubjectIndex(k)]
          /\ results[k].query_name = query_sigs[QueryIndex(k)].name
          /\ results[k].query_filename = query_sigs[QueryIndex(k)].filename
    /\ Len(ResultLines) = Len(results)
    /\ \A k \in 1..Len(ResultLines) :
          /\ ResultLines[k].name = SubjectOf(k).name
          /\ ResultLines[k].query = ShownQuery(QueryIndex(k))
    /\ Len(csv_rows) = IF output THEN Len(results) ELSE 0
    /\ \A k \in 1..Len(csv_rows) : csv_rows[k] = CsvRow(results[k])
    /\ Completed => Len(results) = Len(against_list) * NQueries

C2_Witness ==
    /\ mode = "mg_many_search"
    /\ Completed
    /\ output
    /\ Len(against_list) = 2
    /\ against_list[1] # against_list[2]
    /\ NQueries >= 2
    /\ Len(csv_rows) = 2 * NQueries
    /\ query_sigs[1].name # query_sigs[2].name

\* ------------------------------------------------------------------ C3
WeightedFields ==
    {"f_match_weighted", "sum_weighted_found", "average_abund", "median_abund",
     "std_abund", "match_n_weighted_hashes"}

UnweightedFields ==
    {"intersect_bp", "f_query", "f_match", "query_n_hashes", "match_n_hashes"}

\* C3: in the row of a metagenome without abundances every weighted field
\* is an absent marker ('' or None), renders as an empty CSV field and is
\* no number; the unweighted fields are numbers.
C3_AbsentNotZero ==
    \A k \in 1..Len(results) :
        ~SubjectOf(k).minhash.track_abundance =>
            /\ \A f \in WeightedFields :
                  /\ results[k][f] \in {PyEmptyStr, PyNone}
                  /\ ~IsNumber(results[k][f])
                  /\ CsvRow(results[k])[f] = ""
                  /\ CsvRow(results[k])[f] # "0"
            /\ \A f \in UnweightedFields :
                  /\ IsNumber(results[k][f])
                  /\ CsvRow(results[k])[f] # ""
            /\ output => \A f \in WeightedFields : csv_rows[k][f] = ""

C3_Witness ==
    /\ ~require_abundance
    /\ output
    /\ \E k \in 1..Len(csv_rows) :
          /\ ~SubjectOf(k).minhash.track_abundance
          /\ csv_rows[k].average_abund = ""
          /\ csv_rows[k].match_n_hashes = "2"

\* ------------------------------------------------------------------ C4
SomeSubjectLackedAbundance ==
    \E k \in 1..Len(results) : ~SubjectOf(k).minhash.track_abundance

\* C4: when a sweep completes, the missing-abundance flag is true and
\* exactly one advisory note has been printed, after the last result, if a
\* processed metagenome lacked abundances; otherwise the flag is false and
\* no note is printed.
C4_NoteWhenAbundanceMissing ==
    Completed =>
        IF SomeSubjectLackedAbundance
        THEN missed_abundance /\ Count(stderr, "note") = 1
        ELSE ~missed_abundance /\ Count(stderr, "note") = 0

\* ------------------------------------------------------------------ C5
IsAbundanceError(e) ==
    e.type = "ValueError" /\ e.msg = "must have abundance information"

\* the metagenome the sweep is at resolves to one sketch, without abundances
AtFlatSubject ==
    /\ i <= Len(against_list)
    /\ Len(LoadFile(against_list[i])) = 1
    /\ ~LoadFile(against_list[i])[1].minhash.track_abundance

\* C5: with require_abundance set, the call for a metagenome without
\* abundances raises an error that names the file; the run ends failed, and
\* the results emitted are exactly those of the metagenomes before it.
C5_RequireAbundanceAborts ==
    require_abundance =>
        /\ \A k \in 1..Len(results) : SubjectOf(k).minhash.track_abundance
        /\ (Len(loads) > 0 /\ AtFlatSubject /\ loads[Len(loads)] = against_list[i]) =>
              /\ Failed
              /\ IsAbundanceError(exc)
              /\ exc.file = against_list[i]
              /\ stderr[Len(stderr)] = ErrLine("traceback", exc)
              /\ Len(results) = (i - 1) * NQueries
              /\ Len(ResultLines) = (i - 1) * NQueries
              /\ Len(csv_rows) = IF output THEN (i - 1) * NQueries ELSE 0

C5_Witness ==
    /\ require_abundance
    /\ output
    /\ Failed
    /\ IsAbundanceError(exc)
    /\ exc.file = "mgB.sig"
    /\ i = 2
    /\ Len(against_list) = 2
    /\ Len(csv_rows) >= 1

\* ------------------------------------------------------------------ C6
\* C6: an mgsearch whose query file resolves to no sketch or to several
\* returns -1 with an error message, having loaded no metagenome, opened no
\* output file and emitted nothing.
C6_QueryResolutionFails ==
    (mode = "mgsearch" /\ Len(LoadFile(query_filenames[1])) # 1) =>
        /\ loads = << >>
        /\ out_fp = "None"
        /\ csv_header = 0
        /\ csv_rows = << >>
        /\ results = << >>
        /\ Count(stdout, "result") = 0
        /\ pc # "sweep"
        /\ Done => /\ retval = PyInt(-1)
                   /\ Len(stderr) = 1
                   /\ stderr[1].kind = "error"
                   /\ stderr[1].exc.count = Len(LoadFile(query_filenames[1]))

C6_Witness ==
    /\ mode = "mgsearch"
    /\ Len(LoadFile(query_filenames[1])) > 1
    /\ output
    /\ Len(against_list) > 0
    /\ Done
    /\ retval = PyInt(-1)

\* ------------------------------------------------------------------ C7
EmptyIntersection(k) ==
    Hashes(QueryPassed(k).minhash) \cap Hashes(SubjectOf(k).minhash) = {}

WeightedStatFields ==
    {"f_match_weighted", "sum_weighted_found", "average_abund", "median_abund",
     "std_abund"}

\* C7: in the row of a metagenome with abundances that shares no hash with
\* the query, the weighted fraction, the weighted sum and the mean, median
\* and standard deviation are the number 0, and nothing was divided by the
\* metagenome's total abundance.
C7_EmptyIntersectionIsZero ==
    \A k \in 1..Len(results) :
        (SubjectOf(k).minhash.track_abundance /\ EmptyIntersection(k)) =>
            /\ \A f \in WeightedStatFields :
                  /\ IsNumber(results[k][f])
                  /\ results[k][f].v = 0
            /\ ~divided[k]

C7_Witness ==
    \E k \in 1..Len(results) :
        /\ SubjectOf(k).minhash.track_abundance
        /\ EmptyIntersection(k)
        /\ Hashes(QueryPassed(k).minhash) # {}
        /\ results[k].average_abund = PyInt(0)

\* ------------------------------------------------------------------ C8
\* C8: in every row, intersect_bp is the number of hashes the query sketch
\* shares with the flattened metagenome sketch times the row's own scaled.
C8_IntersectBpIsSharedTimesRowScaled ==
    \A k \in 1..Len(results) :
        results[k].intersect_bp.v =
            Cardinality(Hashes(QueryPassed(k).minhash)
                        \cap Hashes(Flatten(SubjectOf(k).minhash)))
            * results[k].scaled.v

\* ------------------------------------------------------------------ C9
FinerThanRequested(query_ss) ==
    scaled # NoScaled /\ query_ss.minhash.scaled < scaled

\* C9: in a many-query sweep every query whose own scaled is finer than the
\* requested one is compared at the requested scaled: the sketch each call
\* of _search_metag receives has the requested scaled, and query_n_hashes
\* counts the downsampled sketch.
C9_ManyQueriesDownsampled ==
    (mode = "mg_many_search" /\ pc # "start") =>
        /\ \A q \in 1..NQueries :
              LET loaded == LoadAll(query_filenames)[q] IN
              FinerThanRequested(loaded) =>
                  query_sigs[q].minhash = Downsample(loaded.minhash, scaled)
        /\ \A k \in 1..Len(results) :
              LET loaded == LoadAll(query_filenames)[QueryIndex(k)] IN
              FinerThanRequested(loaded) =>
                  results[k].query_n_hashes =
                      PyInt(Cardinality(Hashes(Downsample(loaded.minhash, scaled))))

\* ------------------------------------------------------------------ C10
\* C10: the column header is printed at most once; it is printed exactly
\* when there is a result line, and then it stands, with its blank line
\* and its rule, right before the first result line.
C10_HeaderOnceBeforeFirstResult ==
    /\ Count(stdout, "header") <= 1
    /\ Count(stdout, "header") = 1 <=> Count(stdout, "result") > 0
    /\ \A n \in 1..Len(stdout) :
          stdout[n].kind = "header" =>
              /\ n > 1 /\ stdout[n - 1].kind = "blank"
              /\ n + 2 <= Len(stdout)
              /\ stdout[n + 1].kind = "rule"
              /\ stdout[n + 2].kind = "result"
              /\ \A m \in 1..n : stdout[m].kind # "result"
    /\ (Done /\ results = << >>) => Count(stdout, "header") = 0

C10_Witness ==
    /\ Done
    /\ Count(stdout, "result") >= 2
    /\ Count(stdout, "header") = 1
    /\ stdout[Len(stdout)].kind = "result"
    /\ stdout[Len(stdout) - 1].kind = "result"

\* ------------------------------------------------------------------ C11
IsResolutionError(e) ==
    e.type = "ValueError" /\ e.msg = "need one metagenome per file for now"

\* the metagenome file the sweep is at resolves to no sketch or to several,
\* and it is the file loaded last
AtUnresolvedSubject ==
    /\ i <= Len(against_list)
    /\ Len(LoadFile(against_list[i])) # 1
    /\ Len(loads) > 0
    /\ loads[Len(loads)] = against_list[i]

\* C11: a metagenome file that resolves to no sketch or to several aborts
\* the sweep: the error names the file and the count, the run ends failed,
\* no row exists for such a file, and the rows emitted are exactly those of
\* the metagenomes before it, for every query.
C11_SubjectResolutionAborts ==
    /\ \A k \in 1..Len(results) : Len(LoadFile(results[k].match_filename)) = 1
    /\ AtUnresolvedSubject =>
          /\ Failed
          /\ IsResolutionError(exc)
          /\ exc.file = against_list[i]
          /\ exc.count = Len(LoadFile(against_list[i]))
          /\ stderr[Len(stderr)] = ErrLine("traceback", exc)
          /\ Len(results) = (i - 1) * NQueries
          /\ \A k \in 1..Len(results) :
                /\ SubjectIndex(k) < i
                /\ results[k].match_filename = against_list[SubjectIndex(k)]
          /\ Len(ResultLines) = (i - 1) * NQueries
          /\ Len(csv_rows) = IF output THEN (i - 1) * NQueries ELSE 0

C11_Witness ==
    /\ Failed
    /\ IsResolutionError(exc)
    /\ exc.file = "mgTwo.sig"
    /\ exc.count = 2
    /\ output
    /\ i = 2
    /\ Len(against_list) = 2
    /\ NQueries = 2
    /\ Len(csv_rows) = 2

====
